---- MODULE Spec2Model ----
(***************************************************************************)
(* TrackManager (pyslam/tracking/track_manager.py): persistent feature     *)
(* track bookkeeping across frames.  The actions model one call of         *)
(* TrackManager.update with arbitrary arguments drawn from small sets.     *)
(*                                                                         *)
(* Python values are modelled as follows.                                  *)
(*   - an Optional array is a sequence of length <= 1: None is << >> and   *)
(*     the array a is << a >>;                                             *)
(*   - a Python list l is the sequence whose element i+1 is l[i];          *)
(*   - the dict self.tracks is a function from track ids to records.       *)
(***************************************************************************)
EXTENDS Integers, Sequences, FiniteSets, TLC

\* Bounds of the model.
MaxDet == 2      \* most keypoints in one frame; indices range over -MaxDet..MaxDet-1
MaxPairs == 2    \* longest idxs_ref / idxs_cur array
MaxFrame == 1    \* frame ids are drawn from 0..MaxFrame
MaxCalls == 3    \* number of update calls explored
NumPos == 1      \* number of distinct keypoint positions
MaxExports == 2  \* number of export_tracks calls explored between two updates
MaxMonoFrame == 3  \* frame ids of the runs with increasing frame ids: 0..MaxMonoFrame

VARIABLES
    tracks,            \* self.tracks
    next_track_id,     \* self.next_track_id
    current_frame,     \* self.current_frame
    active_track_ids,  \* self.active_track_ids
    ref_track_ids,     \* self.ref_track_ids
    old,               \* the fields as they were when the observed update call began
    call,              \* the arguments of the observed update call and how it ended
    calls,             \* number of update calls made
    last_dets,         \* number of detections passed to the latest update call
    exported           \* what the export_tracks calls since the latest update returned

vars == <<tracks, next_track_id, current_frame, active_track_ids,
          ref_track_ids, old, call, calls, last_dets, exported>>

----------------------------------------------------------------------------
\* Python values

None == << >>
Some(a) == << a >>
IsNone(x) == Len(x) = 0
Val(x) == x[1]

Range(s) == { s[i] : i \in DOMAIN s }
Min(a, b) == IF a < b THEN a ELSE b

\* l[i] on a Python list (or numpy array) of length n: a negative i counts from
\* the end, and an i outside -n..n-1 raises IndexError.
IndexError(i, n) == i < 0 - n \/ i >= n
Offset(i, n) == IF i < 0 THEN i + n ELSE i
Get(l, i) == l[Offset(i, Len(l)) + 1]
Set(l, i, v) == [l EXCEPT ![Offset(i, Len(l)) + 1] = v]

\* zip(a, b): pairs up to the shorter of the two.
Zip(a, b) == [k \in 1..Min(Len(a), Len(b)) |-> <<a[k], b[k]>>]

\* (float(kp[0]), float(kp[1]))
Position(kp) == <<kp[1], kp[2]>>

----------------------------------------------------------------------------
\* The argument sets

\* Every integer that indexes some Python list of at most MaxDet elements; on a
\* shorter list the larger ones are past the end and the smaller ones raise.
Idx == (0 - MaxDet)..(MaxDet - 1)
Keypoints == { <<x, x + 1>> : x \in 1..NumPos }
Frames == 0..MaxFrame

SeqsUpTo(S, n) == UNION { [1..m -> S] : m \in 0..n }
OptIdxArrays == {None} \cup { Some(a) : a \in SeqsUpTo(Idx, MaxPairs) }
OptKpArrays == {None} \cup { Some(a) : a \in SeqsUpTo(Keypoints, MaxDet) }

----------------------------------------------------------------------------
\* TrackManager.__init__

Init ==
    /\ tracks = << >>
    /\ next_track_id = 0
    /\ current_frame = -1
    /\ active_track_ids = << >>
    /\ ref_track_ids = << >>
    /\ old = [tracks |-> << >>, next_track_id |-> 0, current_frame |-> -1,
              active_track_ids |-> << >>, ref_track_ids |-> << >>,
              last_dets |-> -1]
    /\ call = [idxs_ref |-> None, idxs_cur |-> None, kps_cur |-> None,
               frame_id |-> -1, path |-> "none"]
    /\ calls = 0
    /\ last_dets = -1
    /\ exported = << >>

----------------------------------------------------------------------------
\* _create_track without the increment of next_track_id: the id is issued again.
create_track_reuse(st, kp, frame_id) ==
    [tracks |-> (st.next_track_id :>
                    [age |-> 1,
                     first_frame |-> frame_id,
                     last_frame |-> frame_id,
                     positions |-> << Position(kp) >>,
                     is_active |-> TRUE]) @@ st.tracks,
     next_track_id |-> st.next_track_id]

\* TrackManager._create_track, on st = [tracks, next_track_id]; the id returned
\* is st.next_track_id.
create_track(st, kp, frame_id) ==
    [tracks |-> (st.next_track_id :>
                    [age |-> 1,
                     first_frame |-> frame_id,
                     last_frame |-> frame_id,
                     positions |-> << Position(kp) >>,
                     is_active |-> TRUE]) @@ st.tracks,
     next_track_id |-> st.next_track_id + 1]

\* The loop of TrackManager._initialize_tracks from keypoint k on,
\* on st = [tracks, next_track_id, ref_track_ids, active_track_ids].
RECURSIVE initialize_loop(_, _, _, _)
initialize_loop(st, kps, frame_id, k) ==
    IF k > Len(kps) THEN st
    ELSE LET c == create_track([tracks |-> st.tracks,
                                next_track_id |-> st.next_track_id],
                               kps[k], frame_id)
             track_id == st.next_track_id
         IN initialize_loop(
                [tracks |-> c.tracks,
                 next_track_id |-> c.next_track_id,
                 ref_track_ids |-> Append(st.ref_track_ids, track_id),
                 active_track_ids |-> Append(st.active_track_ids, track_id)],
                kps, frame_id, k + 1)

\* _initialize_tracks without "self.active_track_ids = []".
initialize_tracks_keeps_active(st, kps, frame_id) ==
    initialize_loop([tracks |-> st.tracks,
                     next_track_id |-> st.next_track_id,
                     ref_track_ids |-> << >>,
                     active_track_ids |-> st.active_track_ids],
                    kps, frame_id, 1)

\* TrackManager._initialize_tracks
initialize_tracks(st, kps, frame_id) ==
    initialize_loop([tracks |-> st.tracks,
                     next_track_id |-> st.next_track_id,
                     ref_track_ids |-> << >>,
                     active_track_ids |-> << >>],
                    kps, frame_id, 1)

\* "Update track info" without the append to positions.
continue_track_no_position(tr, track_id, kp, frame_id) ==
    IF track_id \in DOMAIN tr
    THEN [tr EXCEPT ![track_id] =
             [@ EXCEPT !.age = @ + 1, !.last_frame = frame_id]]
    ELSE tr

\* "Update track info" without the assignment to last_frame.
continue_track_stale_frame(tr, track_id, kp, frame_id) ==
    IF track_id \in DOMAIN tr
    THEN [tr EXCEPT ![track_id] =
             [@ EXCEPT !.age = @ + 1,
                       !.positions = Append(@, Position(kp))]]
    ELSE tr

\* update, "Update track info": one more observation of track_id.
continue_track(tr, track_id, kp, frame_id) ==
    IF track_id \in DOMAIN tr
    THEN [tr EXCEPT ![track_id] =
             [@ EXCEPT !.age = @ + 1,
                       !.last_frame = frame_id,
                       !.positions = Append(@, Position(kp))]]
    ELSE tr

\* update, "Bounds checking for both indices"
bounds_check(idx_ref, idx_cur, ref, kps) ==
    idx_ref < Len(ref) /\ idx_cur < Len(kps)

\* update, "Map matched features to existing tracks": the loop from pair k on,
\* on st = [tracks, new_active_track_ids, raised].  An IndexError leaves the
\* loop, and update, with the tracks as changed so far.
RECURSIVE map_matches(_, _, _, _, _, _)
map_matches(st, pairs, ref, kps, frame_id, k) ==
    IF k > Len(pairs) THEN st
    ELSE LET idx_ref == pairs[k][1]
             idx_cur == pairs[k][2]
         IN IF bounds_check(idx_ref, idx_cur, ref, kps)
            THEN IF IndexError(idx_ref, Len(ref)) \/ IndexError(idx_cur, Len(kps))
                 THEN [st EXCEPT !.raised = TRUE]
                 ELSE LET track_id == Get(ref, idx_ref)
                      IN map_matches(
                             [tracks |-> continue_track(st.tracks, track_id,
                                                        Get(kps, idx_cur), frame_id),
                              new_active_track_ids |->
                                  Set(st.new_active_track_ids, idx_cur, track_id),
                              raised |-> FALSE],
                             pairs, ref, kps, frame_id, k + 1)
            ELSE map_matches(st, pairs, ref, kps, frame_id, k + 1)

\* update, "Assign new track IDs to unmatched features": the loop from slot k on,
\* on st = [tracks, next_track_id, new_active_track_ids].
RECURSIVE assign_new(_, _, _, _)
assign_new(st, kps, frame_id, k) ==
    IF k > Len(st.new_active_track_ids) THEN st
    ELSE IF st.new_active_track_ids[k] = -1
         THEN LET c == create_track([tracks |-> st.tracks,
                                     next_track_id |-> st.next_track_id],
                                    kps[k], frame_id)
              IN assign_new(
                     [tracks |-> c.tracks,
                      next_track_id |-> c.next_track_id,
                      new_active_track_ids |->
                          [st.new_active_track_ids EXCEPT ![k] = st.next_track_id]],
                     kps, frame_id, k + 1)
         ELSE assign_new(st, kps, frame_id, k + 1)

\* The lost ids without the set difference: every id of the old list.
lost_all(ref, new_active_track_ids) ==
    Range(ref)

\* The lost ids with the set difference the wrong way round.
lost_reversed(ref, new_active_track_ids) ==
    Range(new_active_track_ids) \ Range(ref)

\* update, "Mark tracks that were lost"
lost_track_ids(ref, new_active_track_ids) ==
    Range(ref) \ Range(new_active_track_ids)

mark_lost(tr, ref, new_active_track_ids) ==
    [t \in DOMAIN tr |->
        IF t \in lost_track_ids(ref, new_active_track_ids) /\ t # -1
        THEN [tr[t] EXCEPT !.is_active = FALSE]
        ELSE tr[t]]

\* [tid for tid in new_active_track_ids if tid != -1]
active_of(ids) == SelectSeq(ids, LAMBDA tid : tid # -1)

\* The tests without "Handle empty match arrays".
takes_bootstrap_first_only(idxs_ref, idxs_cur, ref) ==
    IsNone(idxs_ref) \/ IsNone(idxs_cur) \/ Len(ref) = 0

\* update, "First frame" and "Handle empty match arrays": the two tests that
\* send the call to _initialize_tracks.
takes_bootstrap(idxs_ref, idxs_cur, ref) ==
    \/ IsNone(idxs_ref) \/ IsNone(idxs_cur) \/ Len(ref) = 0
    \/ Len(Val(idxs_ref)) = 0 \/ Len(Val(idxs_cur)) = 0

\* update from "Create new active track list" on.
reconcile(st, idxs_ref, idxs_cur, kps, frame_id) ==
    LET m == map_matches([tracks |-> st.tracks,
                          new_active_track_ids |-> [k \in 1..Len(kps) |-> -1],
                          raised |-> FALSE],
                         Zip(idxs_ref, idxs_cur), st.ref_track_ids, kps, frame_id, 1)
        a == assign_new([tracks |-> m.tracks,
                         next_track_id |-> st.next_track_id,
                         new_active_track_ids |-> m.new_active_track_ids],
                        kps, frame_id, 1)
    IN IF m.raised
       THEN [st EXCEPT !.tracks = m.tracks, !.path = "raised"]
       ELSE [tracks |-> mark_lost(a.tracks, st.ref_track_ids, a.new_active_track_ids),
             next_track_id |-> a.next_track_id,
             ref_track_ids |-> a.new_active_track_ids,
             active_track_ids |-> active_of(a.new_active_track_ids),
             path |-> "reconcile"]

\* update with "Handle None or empty keypoints" clearing the two lists.
update_from_clears(f, idxs_ref, idxs_cur, kps_cur, frame_id) ==
    LET st == [tracks |-> f.tracks,
               next_track_id |-> f.next_track_id,
               ref_track_ids |-> f.ref_track_ids,
               active_track_ids |-> f.active_track_ids,
               path |-> "empty"]
    IN IF IsNone(kps_cur) \/ Len(Val(kps_cur)) = 0
       THEN [st EXCEPT !.ref_track_ids = << >>, !.active_track_ids = << >>]
       ELSE IF takes_bootstrap(idxs_ref, idxs_cur, f.ref_track_ids)
            THEN LET i == initialize_tracks(st, Val(kps_cur), frame_id)
                 IN [tracks |-> i.tracks,
                     next_track_id |-> i.next_track_id,
                     ref_track_ids |-> i.ref_track_ids,
                     active_track_ids |-> i.active_track_ids,
                     path |-> "bootstrap"]
            ELSE reconcile(st, Val(idxs_ref), Val(idxs_cur), Val(kps_cur), frame_id)

\* The fields after TrackManager.update(idxs_ref, idxs_cur, kps_cur, frame_id) on
\* an object with the fields f, current_frame apart, and the path the call took.
update_from(f, idxs_ref, idxs_cur, kps_cur, frame_id) ==
    LET st == [tracks |-> f.tracks,
               next_track_id |-> f.next_track_id,
               ref_track_ids |-> f.ref_track_ids,
               active_track_ids |-> f.active_track_ids,
               path |-> "empty"]
    IN IF IsNone(kps_cur) \/ Len(Val(kps_cur)) = 0
       THEN st
       ELSE IF takes_bootstrap(idxs_ref, idxs_cur, f.ref_track_ids)
            THEN LET i == initialize_tracks(st, Val(kps_cur), frame_id)
                 IN [tracks |-> i.tracks,
                     next_track_id |-> i.next_track_id,
                     ref_track_ids |-> i.ref_track_ids,
                     active_track_ids |-> i.active_track_ids,
                     path |-> "bootstrap"]
            ELSE reconcile(st, Val(idxs_ref), Val(idxs_cur), Val(kps_cur), frame_id)

\* The same on the object as it is now.
update_result(idxs_ref, idxs_cur, kps_cur, frame_id) ==
    update_from([tracks |-> tracks,
                 next_track_id |-> next_track_id,
                 ref_track_ids |-> ref_track_ids,
                 active_track_ids |-> active_track_ids],
                idxs_ref, idxs_cur, kps_cur, frame_id)

\* len(kps_cur), and 0 for None.
Detections(kps_cur) == IF IsNone(kps_cur) THEN 0 ELSE Len(Val(kps_cur))

\* update without "self.current_frame = frame_id".
update_keeps_frame(idxs_ref, idxs_cur, kps_cur, frame_id) ==
    LET r == update_result(idxs_ref, idxs_cur, kps_cur, frame_id)
    IN /\ current_frame' = current_frame
       /\ tracks' = r.tracks
       /\ next_track_id' = r.next_track_id
       /\ ref_track_ids' = r.ref_track_ids
       /\ active_track_ids' = r.active_track_ids

\* TrackManager.update on the fields of the object.
update(idxs_ref, idxs_cur, kps_cur, frame_id) ==
    LET r == update_result(idxs_ref, idxs_cur, kps_cur, frame_id)
    IN /\ current_frame' = frame_id
       /\ tracks' = r.tracks
       /\ next_track_id' = r.next_track_id
       /\ ref_track_ids' = r.ref_track_ids
       /\ active_track_ids' = r.active_track_ids

\* The arguments of a call: idxs_ref, idxs_cur, kps_cur, frame_id.
Args == OptIdxArrays \X OptIdxArrays \X OptKpArrays \X Frames

\* A call of update that is followed by further calls.  Runs are explored up to
\* their first call of export_tracks: updates are taken before it only.
Update ==
    /\ calls + 1 < MaxCalls
    /\ call.path = "none"
    /\ exported = << >>
    /\ \E a \in Args :
        /\ update(a[1], a[2], a[3], a[4])
        /\ last_dets' = Detections(a[3])
    /\ calls' = calls + 1
    /\ exported' = << >>
    /\ UNCHANGED <<old, call>>

\* The call of update under observation, the last of a run: old and call keep
\* the fields it started from, its arguments and the path it took.
ObservedUpdate ==
    /\ calls < MaxCalls
    /\ call.path = "none"
    /\ exported = << >>
    /\ \E a \in Args :
        /\ update(a[1], a[2], a[3], a[4])
        /\ last_dets' = Detections(a[3])
        /\ call' = [idxs_ref |-> a[1], idxs_cur |-> a[2],
                    kps_cur |-> a[3], frame_id |-> a[4],
                    path |-> update_result(a[1], a[2], a[3], a[4]).path]
    /\ calls' = calls + 1
    /\ old' = [tracks |-> tracks, next_track_id |-> next_track_id,
               current_frame |-> current_frame,
               active_track_ids |-> active_track_ids,
               ref_track_ids |-> ref_track_ids,
               last_dets |-> last_dets]
    /\ exported' = << >>

----------------------------------------------------------------------------
\* Queries

\* TrackManager.get_active_track_count
get_active_track_count == Len(active_track_ids)

\* TrackManager.get_total_track_count
get_total_track_count == Cardinality(DOMAIN tracks)

\* export_tracks, the entry written for one track.
export_entry(track_info) ==
    [age |-> track_info.age,
     first_frame |-> track_info.first_frame,
     last_frame |-> track_info.last_frame,
     num_observations |-> Len(track_info.positions),
     is_active |-> track_info.is_active]

\* export_tracks, export_data['tracks']: the dict as its set of (key, value)
\* pairs, the key being str(track_id).
exported_tracks ==
    { <<ToString(t), export_entry(tracks[t])>> : t \in DOMAIN tracks }

\* The keys of a dict in insertion order: track ids are inserted as they are
\* issued, in increasing order.
RECURSIVE keys(_)
keys(d) ==
    IF d = {} THEN << >>
    ELSE LET t == CHOOSE x \in d : \A y \in d : x <= y
         IN << t >> \o keys(d \ {t})

\* TrackManager.get_track_ages
get_track_ages ==
    LET ks == keys(DOMAIN tracks)
    IN [i \in DOMAIN ks |-> tracks[ks[i]].age]

\* TrackManager.get_active_track_ages
get_active_track_ages ==
    LET ids == SelectSeq(active_track_ids, LAMBDA tid : tid \in DOMAIN tracks)
    IN [i \in DOMAIN ids |-> tracks[ids[i]].age]

\* A float is the exact value (num / den) ^ (1 / root) in lowest terms; the
\* integers of the results stay integers.
RECURSIVE GCD(_, _)
GCD(a, b) == IF b = 0 THEN a ELSE GCD(b, a % b)
Float(num, den, root) ==
    IF num = 0 THEN [num |-> 0, den |-> 1, root |-> 1]
    ELSE [num |-> num \div GCD(num, den), den |-> den \div GCD(num, den),
          root |-> root]
Zero == Float(0, 1, 1)

RECURSIVE Sum(_)
Sum(l) == IF l = << >> THEN 0 ELSE Head(l) + Sum(Tail(l))
Squares(l) == [i \in DOMAIN l |-> l[i] * l[i]]

\* The list in increasing order.
RECURSIVE Sorted(_)
Sorted(l) ==
    IF l = << >> THEN << >>
    ELSE LET k == CHOOSE i \in DOMAIN l : \A j \in DOMAIN l : l[i] <= l[j]
         IN << l[k] >> \o Sorted(SubSeq(l, 1, k - 1) \o SubSeq(l, k + 1, Len(l)))

\* np.mean, np.median, np.std (population), np.max, np.min of a non-empty list
np_mean(l) == Float(Sum(l), Len(l), 1)
np_median(l) ==
    LET s == Sorted(l)
        n == Len(l)
    IN IF n % 2 = 1 THEN Float(s[(n + 1) \div 2], 1, 1)
       ELSE Float(s[n \div 2] + s[n \div 2 + 1], 2, 1)
np_std(l) == Float(Len(l) * Sum(Squares(l)) - Sum(l) * Sum(l), Len(l) * Len(l), 2)
np_max(l) == CHOOSE x \in Range(l) : \A y \in Range(l) : y <= x
np_min(l) == CHOOSE x \in Range(l) : \A y \in Range(l) : x <= y

\* get_track_statistics with the longest and shortest track taken over the
\* active tracks.
track_statistics_of_active(ages, active_ages) ==
    [total_tracks |-> Cardinality(DOMAIN tracks),
     active_tracks |-> Len(active_track_ids),
     mean_track_length |-> IF ages # << >> THEN np_mean(ages) ELSE Zero,
     median_track_length |-> IF ages # << >> THEN np_median(ages) ELSE Zero,
     std_track_length |-> IF ages # << >> THEN np_std(ages) ELSE Zero,
     max_track_length |-> IF active_ages # << >> THEN np_max(active_ages) ELSE 0,
     min_track_length |-> IF active_ages # << >> THEN np_min(active_ages) ELSE 0,
     mean_active_track_length |->
         IF active_ages # << >> THEN np_mean(active_ages) ELSE Zero]

\* TrackManager.get_track_statistics, the dict built from the two lists of ages.
track_statistics(ages, active_ages) ==
    [total_tracks |-> Cardinality(DOMAIN tracks),
     active_tracks |-> Len(active_track_ids),
     mean_track_length |-> IF ages # << >> THEN np_mean(ages) ELSE Zero,
     median_track_length |-> IF ages # << >> THEN np_median(ages) ELSE Zero,
     std_track_length |-> IF ages # << >> THEN np_std(ages) ELSE Zero,
     max_track_length |-> IF ages # << >> THEN np_max(ages) ELSE 0,
     min_track_length |-> IF ages # << >> THEN np_min(ages) ELSE 0,
     mean_active_track_length |->
         IF active_ages # << >> THEN np_mean(active_ages) ELSE Zero]

\* TrackManager.get_track_statistics
get_track_statistics == track_statistics(get_track_ages, get_active_track_ages)

\* export_tracks with total_frames taken as current_frame.
export_data_frames_off(frame) ==
    [tracks |-> exported_tracks,
     statistics |-> get_track_statistics,
     total_frames |-> frame]

\* TrackManager.export_tracks, the dict returned when current_frame is frame.
export_data(frame) ==
    [tracks |-> exported_tracks,
     statistics |-> get_track_statistics,
     total_frames |-> frame + 1]

\* TrackManager.export_tracks
export_tracks == export_data(current_frame)

\* A call of export_tracks: the fields stay, the dict returned is kept.
ExportTracks ==
    /\ call.path = "none"
    /\ Len(exported) < MaxExports
    /\ exported' = Append(exported, export_tracks)
    /\ UNCHANGED <<tracks, next_track_id, current_frame, active_track_ids,
                   ref_track_ids, old, call, calls, last_dets>>

Next == Update \/ ObservedUpdate \/ ExportTracks

\* Arguments as a caller that follows the documented contract passes them: the
\* frame id is larger than that of the call before, every correspondence is a
\* pair of offsets into ref_track_ids and kps_cur, and no prev_index is repeated.
InContract(idxs_ref, idxs_cur, kps_cur, frame_id) ==
    LET pairs == IF IsNone(idxs_ref) \/ IsNone(idxs_cur) THEN << >>
                 ELSE Zip(Val(idxs_ref), Val(idxs_cur))
    IN /\ frame_id > current_frame
       /\ \A k \in DOMAIN pairs :
             /\ 0 <= pairs[k][1] /\ pairs[k][1] < Len(ref_track_ids)
             /\ 0 <= pairs[k][2] /\ pairs[k][2] < Detections(kps_cur)
       /\ \A j, k \in DOMAIN pairs : j # k => pairs[j][1] # pairs[k][1]

MonoArgs == OptIdxArrays \X OptIdxArrays \X OptKpArrays \X (0..MaxMonoFrame)

\* A call of update by such a caller.
MonoUpdate ==
    /\ current_frame < MaxMonoFrame
    /\ \E a \in MonoArgs :
        /\ InContract(a[1], a[2], a[3], a[4])
        /\ update(a[1], a[2], a[3], a[4])
        /\ last_dets' = Detections(a[3])
    /\ calls' = calls + 1
    /\ exported' = << >>
    /\ UNCHANGED <<old, call>>

NextMono == MonoUpdate

SpecMono == Init /\ [][NextMono]_vars

Spec == Init /\ [][Next]_vars

----------------------------------------------------------------------------
\* The observed call, as the properties below speak of it

Observed == call.path # "none"
Returned == call.path \in {"empty", "bootstrap", "reconcile"}

\* Number of detections passed to the observed call.
NumDet == Detections(call.kps_cur)

\* The correspondences (prev_index, cur_index) passed to the observed call.
Pairs ==
    IF IsNone(call.idxs_ref) \/ IsNone(call.idxs_cur) THEN << >>
    ELSE Zip(Val(call.idxs_ref), Val(call.idxs_cur))

\* Non-empty detections, non-empty correspondences, non-empty ref_track_ids.
IsReconciliation ==
    Observed /\ NumDet > 0 /\ Len(Pairs) > 0 /\ Len(old.ref_track_ids) > 0

\* Both indices of the pair are offsets into the lists they point at.
InRange(p) ==
    /\ 0 <= p[1] /\ p[1] < Len(old.ref_track_ids)
    /\ 0 <= p[2] /\ p[2] < NumDet

NoDup(s) == \A i, j \in DOMAIN s : i # j => s[i] # s[j]

\* The ids that the observed call took out of ref_track_ids.
Dropped == Range(old.ref_track_ids) \ Range(ref_track_ids)

\* The tracks that the observed call turned from active to inactive.
Retired ==
    { t \in DOMAIN old.tracks \cap DOMAIN tracks :
        old.tracks[t].is_active /\ ~tracks[t].is_active }

\* The detection slots (0-based) that no in-range pair of the observed call names.
FreeSlots ==
    { c \in 0..(NumDet - 1) :
        ~\E k \in DOMAIN Pairs : InRange(Pairs[k]) /\ Pairs[k][2] = c }

\* A track as _create_track makes it in the observed call.
IsFresh(t) ==
    /\ t \in DOMAIN tracks
    /\ tracks[t].age = 1
    /\ tracks[t].first_frame = call.frame_id
    /\ tracks[t].last_frame = call.frame_id
    /\ Len(tracks[t].positions) = 1
    /\ tracks[t].is_active

----------------------------------------------------------------------------
\* C1. The ids of the tracks ever created are exactly 0 .. next_track_id - 1 and
\* next_track_id is the number of track records; a call removes no record and
\* issues only ids from the old next_track_id upwards, so none is skipped or
\* reused.
C1_IdsAreDense ==
    /\ DOMAIN tracks = 0..(next_track_id - 1)
    /\ next_track_id = Cardinality(DOMAIN tracks)
    /\ Observed =>
        /\ DOMAIN old.tracks \subseteq DOMAIN tracks
        /\ DOMAIN tracks \ DOMAIN old.tracks = old.next_track_id..(next_track_id - 1)
        /\ \A t \in DOMAIN old.tracks :
               tracks[t].first_frame = old.tracks[t].first_frame

\* Ids were issued by an earlier call and again by a reconciliation call.
C1_Witness ==
    /\ call.path = "reconcile"
    /\ old.next_track_id >= 2
    /\ next_track_id >= old.next_track_id + 2

\* C2. Every track has age = len(positions) and age >= 1, whatever the
\* correspondences were, and every exported entry has num_observations = age.
C2_AgeIsObservations ==
    /\ \A t \in DOMAIN tracks :
        /\ tracks[t].age = Len(tracks[t].positions)
        /\ tracks[t].age >= 1
    /\ \A e \in exported_tracks : e[2].num_observations = e[2].age

\* A call with a repeated and an out-of-range index has aged a track twice.
C2_Witness ==
    /\ call.path = "reconcile"
    /\ \E k \in DOMAIN Pairs : ~InRange(Pairs[k])
    /\ \E t \in DOMAIN old.tracks : tracks[t].age = old.tracks[t].age + 2
    /\ Cardinality(exported_tracks) >= 2

\* C3. After every update call that returned, empty detections included, the
\* length of ref_track_ids is the number of detections passed to that call.
C3_RefLenIsDetections ==
    Returned => Len(ref_track_ids) = NumDet

\* C4. Every entry of ref_track_ids is a real id (never the sentinel -1) of a
\* track in tracks that has is_active = TRUE.
C4_RefIdsAreActiveTracks ==
    \A i \in DOMAIN ref_track_ids :
        /\ ref_track_ids[i] # -1
        /\ ref_track_ids[i] \in DOMAIN tracks
        /\ tracks[ref_track_ids[i]].is_active

\* A reconciliation call retired one track, continued another and made a third.
C4_Witness ==
    /\ call.path = "reconcile"
    /\ Retired # {}
    /\ Range(ref_track_ids) \cap Range(old.ref_track_ids) # {}
    /\ Range(ref_track_ids) \ DOMAIN old.tracks # {}

\* C5. In every branch of update, an id that is in ref_track_ids before the call
\* and not after it has is_active = FALSE after the call, and an id that has left
\* ref_track_ids is in it after no later call.
C5_DroppedIdsAreRetired ==
    Returned =>
        /\ \A t \in Dropped : ~tracks[t].is_active
        /\ \A t \in DOMAIN old.tracks \ Range(old.ref_track_ids) :
               t \notin Range(ref_track_ids)

\* C6. Once is_active is FALSE no later update call sets it back or changes the
\* track's age, last_frame or positions.
C6_RetiredIsTerminal ==
    Observed =>
        \A t \in DOMAIN old.tracks :
            ~old.tracks[t].is_active =>
                /\ t \in DOMAIN tracks
                /\ ~tracks[t].is_active
                /\ tracks[t].age = old.tracks[t].age
                /\ tracks[t].last_frame = old.tracks[t].last_frame
                /\ tracks[t].positions = old.tracks[t].positions

\* A call that aged one track started with another already retired.
C6_Witness ==
    /\ call.path = "reconcile"
    /\ \E t \in DOMAIN old.tracks : ~old.tracks[t].is_active
    /\ \E u \in DOMAIN old.tracks : tracks[u].age > old.tracks[u].age

\* The pairs of the observed call are all in range and name each prev_index and
\* each cur_index at most once.
ValidDistinctPairs ==
    /\ \A k \in DOMAIN Pairs : InRange(Pairs[k])
    /\ NoDup([k \in DOMAIN Pairs |-> Pairs[k][1]])
    /\ NoDup([k \in DOMAIN Pairs |-> Pairs[k][2]])

\* Every pair (p, c) of the observed call carried the id at p to slot c, and gave
\* that track one more observation, made in frame frame_id.
PairsContinued ==
    \A k \in DOMAIN Pairs :
        LET t == old.ref_track_ids[Pairs[k][1] + 1]
        IN /\ ref_track_ids[Pairs[k][2] + 1] = t
           /\ tracks[t].age = old.tracks[t].age + 1
           /\ tracks[t].last_frame = call.frame_id
           /\ Len(tracks[t].positions) = Len(old.tracks[t].positions) + 1

\* C7, as claimed. In a reconciliation call whose pairs are all in range and name
\* each prev_index and each cur_index at most once, for every pair (p, c) the new
\* ref_track_ids[c] is the old ref_track_ids[p], and that track's age is one more
\* than before, its last_frame is frame_id and its positions one element longer.
C7_ContinuationAsClaimed ==
    (IsReconciliation /\ ValidDistinctPairs) => PairsContinued

\* C7, amended. The same, for a call that finds no id twice in ref_track_ids.
C7_Continuation ==
    (IsReconciliation /\ ValidDistinctPairs /\ NoDup(old.ref_track_ids))
        => PairsContinued

\* The swap: two tracks continued in exchanged slots.
C7_Witness ==
    /\ IsReconciliation
    /\ NoDup(old.ref_track_ids)
    /\ Pairs = << <<0, 1>>, <<1, 0>> >>
    /\ Len(old.ref_track_ids) = 2
    /\ ref_track_ids = << old.ref_track_ids[2], old.ref_track_ids[1] >>
    /\ call.frame_id # old.tracks[ref_track_ids[1]].last_frame

\* C8. After a reconciliation call that returned, the tracks turned from active
\* to inactive are exactly the ids of the old ref_track_ids that are not in the
\* new one, every id of the new list is active, get_active_track_count is the
\* number of detections, and the number of tracks has grown by the number of
\* detection slots that no in-range pair assigned.
C8_LossAndGrowth ==
    (IsReconciliation /\ Returned) =>
        /\ Retired = Dropped
        /\ \A i \in DOMAIN ref_track_ids : tracks[ref_track_ids[i]].is_active
        /\ get_active_track_count = NumDet
        /\ get_total_track_count =
               Cardinality(DOMAIN old.tracks) + Cardinality(FreeSlots)

\* C9. After a reconciliation call that returned, the detection slots that no
\* in-range pair assigned hold newly created tracks: the ids next_track_id,
\* next_track_id + 1, ... in the order of the slots, each track with age 1,
\* first_frame = last_frame = frame_id, one position and is_active = TRUE.
C9_FreeSlotsGetNewTracks ==
    (IsReconciliation /\ Returned) =>
        \A c \in FreeSlots :
            LET rank == Cardinality({ d \in FreeSlots : d < c })
            IN /\ ref_track_ids[c + 1] = old.next_track_id + rank
               /\ IsFresh(ref_track_ids[c + 1])

\* The observed call is one the bootstrap is claimed for: n > 0 detections and
\* correspondences absent or empty, or no ref_track_ids.
BootstrapCase ==
    /\ Observed
    /\ NumDet > 0
    /\ \/ IsNone(call.idxs_ref) \/ IsNone(call.idxs_cur)
       \/ Len(Val(call.idxs_ref)) = 0 \/ Len(Val(call.idxs_cur)) = 0
       \/ Len(old.ref_track_ids) = 0

\* C10. In the bootstrap case exactly n tracks are created, each with age 1,
\* is_active = TRUE and first_frame = last_frame = frame_id; ref_track_ids and
\* active_track_ids are the list of the n new ids in detection order; and no
\* track record that existed before is changed.
C10_Bootstrap ==
    BootstrapCase =>
        /\ next_track_id = old.next_track_id + NumDet
        /\ DOMAIN tracks =
               DOMAIN old.tracks \cup (old.next_track_id..(next_track_id - 1))
        /\ \A t \in old.next_track_id..(next_track_id - 1) : IsFresh(t)
        /\ ref_track_ids = [i \in 1..NumDet |-> old.next_track_id + i - 1]
        /\ active_track_ids = ref_track_ids
        /\ \A t \in DOMAIN old.tracks : tracks[t] = old.tracks[t]

\* Empty match arrays on a later frame: two new tracks, the two old ones dropped
\* from the lists and left as they were.
C10_Witness ==
    /\ BootstrapCase
    /\ ~IsNone(call.idxs_ref) /\ ~IsNone(call.idxs_cur)
    /\ Len(old.ref_track_ids) = 2
    /\ NumDet = 2
    /\ ref_track_ids = << old.next_track_id, old.next_track_id + 1 >>
    /\ \A t \in Range(old.ref_track_ids) : tracks[t].is_active

\* C11. When the call before had zero detections, a call with detections takes
\* the bootstrap path whatever its correspondences: every detection becomes a new
\* track and no existing track grows older.
C11_BootstrapAfterEmptyFrame ==
    (Observed /\ old.last_dets = 0 /\ NumDet > 0) =>
        /\ call.path = "bootstrap"
        /\ ref_track_ids = [i \in 1..NumDet |-> old.next_track_id + i - 1]
        /\ \A t \in DOMAIN old.tracks : tracks[t].age = old.tracks[t].age

\* C12. A call with empty or None detections only records the frame:
\* current_frame is frame_id, the other fields are as before, nothing is raised.
C12_EmptyDetectionsNoOp ==
    (Observed /\ NumDet = 0) =>
        /\ call.path = "empty"
        /\ current_frame = call.frame_id
        /\ tracks = old.tracks
        /\ next_track_id = old.next_track_id
        /\ ref_track_ids = old.ref_track_ids
        /\ active_track_ids = old.active_track_ids

\* An empty frame, with correspondences, on a store that holds reference ids.
C12_Witness ==
    /\ Observed
    /\ NumDet = 0
    /\ ~IsNone(call.kps_cur)
    /\ Len(Pairs) > 0
    /\ Len(ref_track_ids) = 2
    /\ current_frame # old.current_frame

\* The sequence s without its element k.
Without(s, k) == SubSeq(s, 1, k - 1) \o SubSeq(s, k + 1, Len(s))

\* The fields are those that the observed call leaves when made without pair k.
AsWithoutPair(k) ==
    LET r == update_from(old,
                         Some(Without(Val(call.idxs_ref), k)),
                         Some(Without(Val(call.idxs_cur), k)),
                         call.kps_cur, call.frame_id)
    IN /\ tracks = r.tracks
       /\ next_track_id = r.next_track_id
       /\ ref_track_ids = r.ref_track_ids
       /\ active_track_ids = r.active_track_ids

\* C13. A pair whose prev_index is no offset into ref_track_ids or whose
\* cur_index is no offset into the detections, negative values included, raises
\* no error and is ignored: the call leaves what it leaves without that pair.
C13_OutOfRangePairIgnored ==
    Observed =>
        \A k \in DOMAIN Pairs :
            ~InRange(Pairs[k]) => (call.path # "raised" /\ AsWithoutPair(k))

\* No two pairs of the observed call have the same prev_index.
DistinctPrev == NoDup([k \in DOMAIN Pairs |-> Pairs[k][1]])

\* C14. After every update call whose correspondences hold no two pairs with the
\* same prev_index, ref_track_ids holds no id twice.
C14_NoDuplicateIds ==
    (Observed /\ DistinctPrev) => NoDup(ref_track_ids)

\* C15. In every state get_track_statistics returns a value: total_tracks is the
\* number of track records, active_tracks is len(active_track_ids),
\* max_track_length and min_track_length are the largest and smallest age over
\* all tracks, and on a store without tracks every field is zero.
C15_Statistics ==
    LET stats == get_track_statistics
    IN /\ stats.total_tracks = Cardinality(DOMAIN tracks)
       /\ stats.active_tracks = Len(active_track_ids)
       /\ DOMAIN tracks # {} =>
            /\ \A t \in DOMAIN tracks :
                  /\ tracks[t].age <= stats.max_track_length
                  /\ tracks[t].age >= stats.min_track_length
            /\ \E t \in DOMAIN tracks : tracks[t].age = stats.max_track_length
            /\ \E t \in DOMAIN tracks : tracks[t].age = stats.min_track_length
       /\ DOMAIN tracks = {} =>
            stats = [total_tracks |-> 0, active_tracks |-> 0,
                     mean_track_length |-> Zero, median_track_length |-> Zero,
                     std_track_length |-> Zero, max_track_length |-> 0,
                     min_track_length |-> 0, mean_active_track_length |-> Zero]

\* A store whose longest track is retired and older than every active track.
C15_Witness ==
    /\ get_track_statistics.total_tracks = 3
    /\ get_track_statistics.active_tracks = 2
    /\ get_track_statistics.max_track_length = 2
    /\ get_track_statistics.min_track_length = 1
    /\ \A t \in Range(active_track_ids) : tracks[t].age = 1

\* C16. export_tracks changes no field, returns what the export_tracks call
\* before it returned when no update came between, and its total_frames is
\* current_frame + 1, which is 0 before any update.
C16_ExportReadOnly ==
    [][Len(exported') > Len(exported) =>
          /\ UNCHANGED <<tracks, next_track_id, current_frame,
                         active_track_ids, ref_track_ids>>
          /\ exported'[Len(exported')].total_frames = current_frame + 1
          /\ calls = 0 => exported'[Len(exported')].total_frames = 0
          /\ Len(exported) > 0 => exported'[Len(exported')] = exported[Len(exported)]
      ]_vars

\* Two exports in a row after two updates that left a retired track.
C16_Witness ==
    /\ Len(exported) = 2
    /\ calls = 2
    /\ exported[2].total_frames = 2
    /\ exported[2].statistics.active_tracks < exported[2].statistics.total_tracks

\* C17. After every update call (and before the first) active_track_ids is
\* ref_track_ids without its -1 entries, in the same order.
C17_ActiveIsFilteredRef ==
    active_track_ids = SelectSeq(ref_track_ids, LAMBDA tid : tid # -1)

\* A bootstrap call on a store that held other active ids.
C17_Witness ==
    /\ Observed
    /\ call.path = "bootstrap"
    /\ Len(old.active_track_ids) = 2
    /\ Len(active_track_ids) = 1
    /\ Range(active_track_ids) \cap Range(old.active_track_ids) = {}

\* C18. The exported statistics agree with the exported flags: active_tracks is
\* the number of tracks exported with is_active true, and a track is flagged
\* is_active exactly when its id is in active_track_ids.
C18_ActiveCountIsFlagCount ==
    /\ export_tracks.statistics.active_tracks =
           Cardinality({ e \in export_tracks.tracks : e[2].is_active })
    /\ \A t \in DOMAIN tracks :
           tracks[t].is_active <=> t \in Range(active_track_ids)

\* C19. Every track that the observed call made older is in ref_track_ids after
\* the call and still active, whatever the correspondences.
C19_AgedTracksStayActive ==
    Observed =>
        \A t \in DOMAIN old.tracks :
            tracks[t].age > old.tracks[t].age =>
                (t \in Range(ref_track_ids) /\ tracks[t].is_active)

\* C20. When frame ids increase strictly and every correspondence is in range
\* with no prev_index repeated, every track has first_frame <= last_frame <=
\* current_frame and no more observations than frames in its span.
C20_SpanBoundsAge ==
    \A t \in DOMAIN tracks :
        /\ tracks[t].first_frame <= tracks[t].last_frame
        /\ tracks[t].last_frame <= current_frame
        /\ tracks[t].age <= tracks[t].last_frame - tracks[t].first_frame + 1

\* A track with three observations in a span of four frames, next to a track
\* retired in an earlier frame.
C20_Witness ==
    /\ \E t \in DOMAIN tracks :
          /\ tracks[t].age = 3
          /\ tracks[t].last_frame - tracks[t].first_frame = 3
          /\ tracks[t].is_active
    /\ \E t \in DOMAIN tracks :
          ~tracks[t].is_active /\ tracks[t].last_frame < current_frame

====
